---- MODULE Spec2Model ----
(***************************************************************************)
(* Base::Metadata (MetadataReader.h / MetadataReader.cpp): the package.xml *)
(* reader.  A document is loaded by Xerces, the root <package> element is  *)
(* checked, the format attribute is dispatched on, and parseVersion3 walks *)
(* the root's child nodes into the typed members of the Metadata object.   *)
(*                                                                         *)
(* Strings are sequences of one-character strings, so that parsing         *)
(* (XMLString::parseInt, version triplets) is computed rather than looked  *)
(* up.  Tag and attribute NAMES are TLA+ strings: the code only compares   *)
(* them with literals.  All characters are ASCII, for which                *)
(* XMLString::transcode is lossless.                                       *)
(***************************************************************************)
EXTENDS Integers, Sequences, FiniteSets, TLC

VARIABLES metadata, thrown, initCount, termCount, ret, liveDocuments

vars == <<metadata, thrown, initCount, termCount, ret, liveDocuments>>

(***************************************************************************)
(* Bounds                                                                  *)
(***************************************************************************)
\* longest child list of the documents drawn from the whole node alphabet
MaxChildren == 2
\* number of Metadata constructor calls in one behaviour
MaxConstructions == 2

(***************************************************************************)
(* Generic helpers                                                         *)
(***************************************************************************)
RECURSIVE SeqsUpTo(_, _)
SeqsUpTo(S, n) ==
    IF n = 0 THEN {<<>>}
    ELSE LET shorter == SeqsUpTo(S, n - 1)
         IN  shorter \cup {Append(s, x) : s \in {t \in shorter : Len(t) = n - 1}, x \in S}

EmptyString == <<>>

Digits == {"0", "1", "2", "3", "4", "5", "6", "7", "8", "9"}

DigitValue(c) ==
    CASE c = "0" -> 0 [] c = "1" -> 1 [] c = "2" -> 2 [] c = "3" -> 3
      [] c = "4" -> 4 [] c = "5" -> 5 [] c = "6" -> 6 [] c = "7" -> 7
      [] c = "8" -> 8 [] c = "9" -> 9

(***************************************************************************)
(* The DOM as Xerces hands it to the reader                                *)
(***************************************************************************)
\* A child node of the root.  node = "element" for a DOMElement, "text" for
\* a DOMText (the whitespace between elements).  text is the node's own
\* character data, elems the number of child elements it has; attrs is the
\* set of <<name, value>> attribute pairs (names unique).
Element(tag, attrs, text, elems) ==
    [node |-> "element", tag |-> tag, attrs |-> attrs, text |-> text, elems |-> elems]

TextNode(text) ==
    [node |-> "text", tag |-> "#text", attrs |-> {}, text |-> text, elems |-> 0]

\* DOMElement::getAttribute: the value, or the empty string when the
\* attribute is not specified.
getAttribute(e, name) ==
    IF \E p \in e.attrs : p[1] = name
    THEN (CHOOSE p \in e.attrs : p[1] = name)[2]
    ELSE EmptyString

\* DOMNode::getTextContent of an element: its character data.
getTextContent(e) == e.text

\* DOMNode::getChildNodes()->getLength(): every child NODE counts, the text
\* node that carries the character data as well as the child elements.
getChildNodesLength(e) == (IF e.text # EmptyString THEN 1 ELSE 0) + e.elems

\* XMLString::stringLen
stringLen(s) == Len(s)

\* transcodeToString: XMLCh* to std::string in the local code page, character
\* by character (every character of the model is in the code page).
transcodeToString(xml) == [i \in 1..Len(xml) |-> xml[i]]


\* XMLString::parseInt: trims blanks, then strtol base 10 must consume the
\* whole string; otherwise NumberFormatException.  [ok, value].
RECURSIVE strtolDigits(_, _, _)
strtolDigits(s, i, acc) ==
    IF i > Len(s) \/ s[i] \notin Digits THEN [end |-> i, value |-> acc]
    ELSE strtolDigits(s, i + 1, 10 * acc + DigitValue(s[i]))

RECURSIVE trimLeft(_)
trimLeft(s) == IF s # <<>> /\ Head(s) = " " THEN trimLeft(Tail(s)) ELSE s

RECURSIVE trimRight(_)
trimRight(s) ==
    IF s # <<>> /\ s[Len(s)] = " " THEN trimRight(SubSeq(s, 1, Len(s) - 1)) ELSE s

parseInt(toConvert) ==
    LET trimmedStr == trimRight(trimLeft(toConvert))
        signed     == trimmedStr # <<>> /\ Head(trimmedStr) \in {"-", "+"}
        first      == IF signed THEN 2 ELSE 1
        r          == strtolDigits(trimmedStr, first, 0)
    IN  IF Len(trimmedStr) = 0 \/ r.end = first \/ r.end # Len(trimmedStr) + 1
        THEN [ok |-> FALSE, value |-> 0]
        ELSE [ok |-> TRUE,
              value |-> IF signed /\ Head(trimmedStr) = "-" THEN 0 - r.value ELSE r.value]

(***************************************************************************)
(* Record extractors (Meta::Contact, License, Url, Dependency,             *)
(* GenericMetadata constructors)                                           *)
(***************************************************************************)
\* The extractor taking the email from the text content.
Contact_emailFromText(e) ==
    [name  |-> transcodeToString(getTextContent(e)),
     email |-> transcodeToString(getTextContent(e))]

Contact(e) ==
    [name  |-> transcodeToString(getTextContent(e)),
     email |-> transcodeToString(getAttribute(e, "email"))]

\* file stays the default-constructed (empty) path unless the attribute is
\* non-empty.
License(e) ==
    LET fileAttribute == getAttribute(e, "file")
    IN  [name |-> transcodeToString(getTextContent(e)),
         file |-> IF stringLen(fileAttribute) > 0
                  THEN transcodeToString(fileAttribute) ELSE EmptyString]

Website == <<"w", "e", "b", "s", "i", "t", "e">>
Bugtracker == <<"b", "u", "g", "t", "r", "a", "c", "k", "e", "r">>
Repository == <<"r", "e", "p", "o", "s", "i", "t", "o", "r", "y">>

\* enum class UrlType
UrlType == {"website", "repository", "bugtracker"}

\* What the member `type` can hold when no branch of Url::Url assigns it: the
\* storage is not initialised, so any enumerator or a value that is none of
\* them.
Indeterminate == UrlType \cup {"out_of_range"}

\* `uninit` is the content of the uninitialised storage of this record.
Url(e, uninit) ==
    LET typeAttribute == transcodeToString(getAttribute(e, "type"))
    IN  [location |-> transcodeToString(getTextContent(e)),
         type |-> IF typeAttribute = EmptyString \/ typeAttribute = Website
                     THEN "website"
                  ELSE IF typeAttribute = Bugtracker THEN "bugtracker"
                  ELSE IF typeAttribute = Repository THEN "repository"
                  ELSE uninit]

\* TRUE when Url::Url leaves `type` unassigned for this element.
UrlTypeUnassigned(e) ==
    LET typeAttribute == transcodeToString(getAttribute(e, "type"))
    IN  ~(typeAttribute = EmptyString \/ typeAttribute = Website
          \/ typeAttribute = Bugtracker \/ typeAttribute = Repository)

Dependency(e) ==
    [package     |-> transcodeToString(getTextContent(e)),
     version_lt  |-> transcodeToString(getAttribute(e, "version_lt")),
     version_lte |-> transcodeToString(getAttribute(e, "version_lte")),
     version_eq  |-> transcodeToString(getAttribute(e, "version_eq")),
     version_gte |-> transcodeToString(getAttribute(e, "version_gte")),
     version_gt  |-> transcodeToString(getAttribute(e, "version_gt")),
     condition   |-> transcodeToString(getAttribute(e, "condition"))]

\* std::map::insert of (name, value) for every attribute.
GenericMetadata(e) ==
    [contents   |-> transcodeToString(getTextContent(e)),
     attributes |-> {<<a[1], transcodeToString(a[2])>> : a \in e.attrs}]

(***************************************************************************)
(* Metadata                                                                *)
(***************************************************************************)
\* The members right after default initialisation, with _dom set (line 57).
NewMetadata(dom) ==
    [_name |-> EmptyString, _version |-> EmptyString, _description |-> EmptyString,
     _maintainer |-> <<>>, _license |-> <<>>, _url |-> <<>>, _author |-> <<>>,
     _depend |-> <<>>, _conflict |-> <<>>, _replace |-> <<>>,
     _genericMetadata |-> <<>>, _dom |-> dom]

\* emplace_back replaced by an insertion at the front.
emplace_back_front(vec, rec) == <<rec>> \o vec

\* std::vector::emplace_back
emplace_back(vec, rec) == Append(vec, rec)

\* The assignment keeping a value that is already set.
assign_keepFirst(old, new) == IF old # EmptyString THEN old ELSE new

\* std::string::operator= on _name, _version, _description (lines 185-189)
assign(old, new) == new

\* The last branch of the chain in parseVersion3: an unrecognised tag is
\* materialised when its node has no child nodes.
IsGenericCandidate(child) == getChildNodesLength(child) = 0

\* One iteration of the loop of parseVersion3 on children->item(i).
parseVersion3Item(m, child, uninit) ==
    IF child.node # "element" THEN m
    ELSE LET tagString == child.tag
         IN  IF tagString = "name"
                THEN [m EXCEPT !._name = assign(@, transcodeToString(getTextContent(child)))]
             ELSE IF tagString = "version"
                THEN [m EXCEPT !._version = assign(@, transcodeToString(getTextContent(child)))]
             ELSE IF tagString = "description"
                THEN [m EXCEPT !._description = assign(@, transcodeToString(getTextContent(child)))]
             ELSE IF tagString = "maintainer"
                THEN [m EXCEPT !._maintainer = emplace_back(@, Contact(child))]
             ELSE IF tagString = "license"
                THEN [m EXCEPT !._license = emplace_back(@, License(child))]
             ELSE IF tagString = "url"
                THEN [m EXCEPT !._url = emplace_back(@, Url(child, uninit))]
             ELSE IF tagString = "author"
                THEN [m EXCEPT !._author = emplace_back(@, Contact(child))]
             ELSE IF tagString = "depend"
                THEN [m EXCEPT !._depend = emplace_back(@, Dependency(child))]
             ELSE IF tagString = "conflict"
                THEN [m EXCEPT !._conflict = emplace_back(@, Dependency(child))]
             ELSE IF tagString = "replace"
                THEN [m EXCEPT !._replace = emplace_back(@, Dependency(child))]
             ELSE IF IsGenericCandidate(child)
                THEN [m EXCEPT !._genericMetadata = emplace_back(@, GenericMetadata(child))]
             ELSE m

\* Positions of the children whose Url record keeps an unassigned `type`.
UnassignedUrls(children) ==
    {i \in 1..Len(children) :
        /\ children[i].node = "element"
        /\ children[i].tag = "url"
        /\ UrlTypeUnassigned(children[i])}

\* The loop of parseVersion3 from index i on; storage[i] is what the
\* uninitialised storage of the record built at position i holds.
RECURSIVE parseVersion3From(_, _, _, _)
parseVersion3From(m, children, i, storage) ==
    IF i > Len(children) THEN m
    ELSE parseVersion3From(
            parseVersion3Item(m, children[i],
                              IF i \in DOMAIN storage THEN storage[i] ELSE "website"),
            children, i + 1, storage)

parseVersion3(m, storage) == parseVersion3From(m, m._dom.children, 1, storage)

\* The exceptions the constructor lets out.
SAXParseException == "SAXParseException"
NumberFormatException == "NumberFormatException"
WrongRoot == "package.xml must contain one, and only one, <package> element."
MissingFormat == "<package> must contain the 'format' attribute"
UnsupportedFormat == "pacakge.xml format version is not supported by this version of FreeCAD"

\* The two ways the constructor ends: an exception and no object, or the object.
Throw(what) == [ok |-> FALSE, what |-> what]
Return(m) == [ok |-> TRUE, object |-> m]

\* The comparison with its sense inverted (== 0 for != 0).
RootTagMismatch_inverted(dom) == dom.tag = "package"

\* XMLString::compareString(rootTagName, "package") != 0
RootTagMismatch(dom) == dom.tag # "package"

\* XMLString::stringLen(formatString) == 0
FormatAttributeMissing(formatString) == stringLen(formatString) = 0

\* The dispatch accepting every format from 3 on.
FormatSupported_atLeast(format) == format >= 3

\* switch (format): case 3
FormatSupported(format) == format = 3

\* Metadata::Metadata(metadataFile), up to its return or throw.
MetadataCtor(file, storage) ==
    IF ~file.wellFormed THEN Throw(SAXParseException)
    ELSE LET _dom == [tag |-> file.tag, attrs |-> file.attrs, children |-> file.children]
         IN  IF RootTagMismatch(_dom) THEN Throw(WrongRoot)
             ELSE LET formatString == getAttribute(_dom, "format")
                  IN  IF FormatAttributeMissing(formatString) THEN Throw(MissingFormat)
                      ELSE LET format == parseInt(formatString)
                           IN  IF ~format.ok THEN Throw(NumberFormatException)
                               ELSE IF FormatSupported(format.value)
                                    THEN Return(parseVersion3(NewMetadata(_dom), storage))
                                    ELSE Throw(UnsupportedFormat)

\* std::vector<Meta::GenericMetadata> Metadata::operator[](tag)
Index(m, tag) == m._genericMetadata

(***************************************************************************)
(* Dependency::matchesDependency.  Only its declaration and documentation  *)
(* are in MetadataReader.h; the body follows the Dependency Matcher of the *)
(* specification.                                                          *)
(***************************************************************************)
\* The leading dot-separated numeric components of s from position i on; a
\* non-numeric suffix ends the parse.
RECURSIVE VersionComponents(_, _)
VersionComponents(s, i) ==
    LET r == strtolDigits(s, i, 0)
    IN  IF r.end = i THEN <<>>
        ELSE IF r.end <= Len(s) /\ s[r.end] = "."
             THEN <<r.value>> \o VersionComponents(s, r.end + 1)
             ELSE <<r.value>>

\* A version string is usable for ordering when it starts with a number.
IsTripletShaped(s) == VersionComponents(s, 1) # <<>>

\* (major, minor, patch): missing components are zero, further ones dropped.
VersionTriplet(s) ==
    LET c == VersionComponents(s, 1)
    IN  [k \in 1..3 |-> IF k <= Len(c) THEN c[k] ELSE 0]

\* The comparison stopping at the minor component.
CompareTriplets_noPatch(a, b) ==
    IF a[1] # b[1] THEN (IF a[1] < b[1] THEN -1 ELSE 1)
    ELSE IF a[2] # b[2] THEN (IF a[2] < b[2] THEN -1 ELSE 1)
    ELSE 0

\* Lexicographic three-way comparison of two triplets: -1, 0 or 1.
CompareTriplets(a, b) ==
    IF a[1] # b[1] THEN (IF a[1] < b[1] THEN -1 ELSE 1)
    ELSE IF a[2] # b[2] THEN (IF a[2] < b[2] THEN -1 ELSE 1)
    ELSE IF a[3] # b[3] THEN (IF a[3] < b[3] THEN -1 ELSE 1)
    ELSE 0

\* candidate <op> bound on triplets; a string that is not triplet-shaped
\* does not restrict.
BoundHolds(op, version, bound) ==
    IF ~IsTripletShaped(version) \/ ~IsTripletShaped(bound) THEN TRUE
    ELSE LET c == CompareTriplets(VersionTriplet(version), VersionTriplet(bound))
         IN  CASE op = "lt"  -> c < 0
               [] op = "lte" -> c <= 0
               [] op = "gte" -> c >= 0
               [] op = "gt"  -> c > 0

\* version_eq compared as a normalised triplet.
EqualHolds_normalized(version, bound) == VersionTriplet(version) = VersionTriplet(bound)

\* version_eq is an exact string match.
EqualHolds(version, bound) == version = bound

\* `evaluated` is what the evaluation of the condition expression yields for
\* this version; it is used only when a condition is present.
matchesDependency(d, version, evaluated) ==
    IF d.condition # EmptyString THEN evaluated
    ELSE IF d.version_eq # EmptyString /\ ~EqualHolds(version, d.version_eq) THEN FALSE
    ELSE IF d.version_lt # EmptyString /\ ~BoundHolds("lt", version, d.version_lt) THEN FALSE
    ELSE IF d.version_lte # EmptyString /\ ~BoundHolds("lte", version, d.version_lte) THEN FALSE
    ELSE IF d.version_gte # EmptyString /\ ~BoundHolds("gte", version, d.version_gte) THEN FALSE
    ELSE IF d.version_gt # EmptyString /\ ~BoundHolds("gt", version, d.version_gt) THEN FALSE
    ELSE TRUE

(***************************************************************************)
(* Documents                                                               *)
(***************************************************************************)
TxtA == <<"a">>
TxtB == <<"b">>
Hello == <<"h", "e", "l", "l", "o">>
AttrX == <<"x">>

V119 == <<"1", ".", "1", ".", "9">>
V120 == <<"1", ".", "2", ".", "0">>
V121 == <<"1", ".", "2", ".", "1">>
V130 == <<"1", ".", "3", ".", "0">>
V20 == <<"2", ".", "0">>
V200 == <<"2", ".", "0", ".", "0">>
V2001 == <<"2", ".", "0", ".", "0", ".", "1">>
VMalformed == <<"x">>

\* candidate versions handed to matchesDependency
Versions == {V119, V120, V121, V130, V20, V200, V2001, VMalformed}
\* values of the version_* attributes of the documents
BoundVersions == {V120, V20, V200}

RecognizedTags ==
    {"name", "version", "description", "maintainer", "license", "url", "author",
     "depend", "conflict", "replace"}

Whitespace == TextNode(<<" ">>)

\* <custom attr="x">hello</custom>, <custom attr="x"/>, <other/>,
\* <custom attr="x"><inner/></custom>
CustomHello == Element("custom", {<<"attr", AttrX>>}, Hello, 0)
CustomEmpty == Element("custom", {<<"attr", AttrX>>}, EmptyString, 0)
OtherEmpty == Element("other", {}, EmptyString, 0)
CustomNested == Element("custom", {<<"attr", AttrX>>}, EmptyString, 1)

ScalarTags == {"name", "version", "description"}

\* elements that become typed records, each tag with two different texts, and
\* what may stand between them
RecordNodes ==
    {Element(t, {}, x, 0) : t \in RecognizedTags \ ScalarTags, x \in {TxtA, TxtB}}
    \cup {Whitespace, CustomEmpty}

\* the scalar elements, the unrecognised elements, and one record element
OtherNodes ==
    {Element(t, {}, x, 0) : t \in ScalarTags, x \in {TxtA, TxtB}}
    \cup {Whitespace, CustomHello, CustomEmpty, OtherEmpty, CustomNested}
    \cup {Element("author", {}, TxtA, 0)}

Package(attrs, children) ==
    [wellFormed |-> TRUE, tag |-> "package", attrs |-> attrs, children |-> children]

Format3 == {<<"format", <<"3">>>>}

\* <package format="3"> with up to MaxChildren child nodes
GeneralFiles ==
    {Package(Format3, c) :
        c \in SeqsUpTo(RecordNodes, MaxChildren) \cup SeqsUpTo(OtherNodes, MaxChildren)}

\* the complete document and the documents that lack one required element
\* or have it empty
RequiredChildren ==
    <<Element("name", {}, TxtA, 0), Element("version", {}, <<"1">>, 0),
      Element("description", {}, TxtB, 0),
      Element("maintainer", {<<"email", TxtA>>}, TxtA, 0),
      Element("license", {}, TxtB, 0)>>

Without(s, i) == SubSeq(s, 1, i - 1) \o SubSeq(s, i + 1, Len(s))

Emptied(s, i) == [s EXCEPT ![i] = Element(s[i].tag, s[i].attrs, EmptyString, 0)]

RequiredFiles ==
    {Package(Format3, RequiredChildren)}
    \cup {Package(Format3, Without(RequiredChildren, i)) : i \in 1..Len(RequiredChildren)}
    \cup {Package(Format3, Emptied(RequiredChildren, i)) : i \in 1..3}

\* a scalar element given twice with another node in between
InterleavedFiles ==
    {Package(Format3, <<Element(t, {}, x, 0), mid, Element(t, {}, y, 0)>>) :
        t \in ScalarTags, x \in {TxtA, TxtB}, y \in {TxtA, TxtB},
        mid \in RecordNodes \cup OtherNodes}

\* one child element carrying attributes
Optional(name, values) == {{}} \cup {{<<name, v>>} : v \in values}

UrlElements ==
    {Element("url", a, TxtA, 0) :
        a \in Optional("type", {EmptyString, Website, Bugtracker, Repository, <<"f", "o", "o">>})}

ContactElements ==
    {Element(t, a, TxtA, 0) : t \in {"maintainer", "author"}, a \in Optional("email", {TxtB})}

LicenseElements == {Element("license", a, TxtA, 0) : a \in Optional("file", {TxtB})}

DependencyElements ==
    {Element("depend", lt \cup lte \cup eq \cup gte \cup gt, TxtA, 0) :
        lt \in Optional("version_lt", BoundVersions),
        lte \in Optional("version_lte", BoundVersions),
        eq \in Optional("version_eq", BoundVersions),
        gte \in Optional("version_gte", BoundVersions),
        gt \in Optional("version_gt", BoundVersions)}
    \cup {Element("depend", {<<"condition", <<"c">>>>} \cup a, TxtA, 0) :
            a \in Optional("version_eq", {V200})}
    \cup {Element(t, a, TxtA, 0) :
            t \in {"conflict", "replace"}, a \in Optional("version_eq", {V200})}

AttributeFiles ==
    {Package(Format3, <<e>>) :
        e \in UrlElements \cup ContactElements \cup LicenseElements \cup DependencyElements}

\* documents that exercise the root tag and the format attribute
FormatStrings ==
    {EmptyString, <<"3">>, <<"4">>, <<"0", "3">>, <<" ", "3", " ">>, <<"+", "3">>,
     <<"-", "3">>, <<"3", "3">>, <<"3", "x">>, <<"x">>}

HeaderFiles ==
    {[wellFormed |-> TRUE, tag |-> t, attrs |-> a, children |-> c] :
        t \in {"package", "foo"},
        a \in Optional("format", FormatStrings),
        c \in {<<>>, <<Element("name", {}, TxtA, 0)>>}}

\* a file Xerces cannot parse
NotWellFormed == [wellFormed |-> FALSE, tag |-> "", attrs |-> {}, children |-> <<>>]

Files ==
    GeneralFiles \cup RequiredFiles \cup InterleavedFiles \cup AttributeFiles
    \cup HeaderFiles \cup {NotWellFormed}

\* tags handed to operator[]
LookupTags == {"custom", "other"}

(***************************************************************************)
(* State machine.  metadata is the owner of the Metadata object            *)
(* (Theme::_metadata): empty, or the one live object.  thrown is the       *)
(* exception the last constructor call let out, with the file it was given.*)
(* initCount / termCount count the calls of XMLPlatformUtils::Initialize   *)
(* and ::Terminate.  ret is the value the last accessor call returned.     *)
(* liveDocuments holds the element trees whose owning XercesDOMParser is   *)
(* alive.                                                                  *)
(***************************************************************************)
Init ==
    /\ metadata = <<>>
    /\ thrown = <<>>
    /\ initCount = 0
    /\ termCount = 0
    /\ ret = <<>>
    /\ liveDocuments = {}

\* parser->parse / getDocument: the parser builds the tree and owns it.  A
\* file that is not well-formed yields no tree.
ParserParse(docs, file) ==
    IF file.wellFormed
    THEN docs \cup {[tag |-> file.tag, attrs |-> file.attrs, children |-> file.children]}
    ELSE docs

\* The local std::unique_ptr<XercesDOMParser> goes out of scope when the
\* constructor returns or throws: the parser and the tree it owns are deleted.
ParserScopeExit(docs, file) ==
    docs \ {[tag |-> file.tag, attrs |-> file.attrs, children |-> file.children]}

\* Metadata::Metadata(metadataFile): Initialize, then parse; a throw leaves no
\* object and does not run the destructor.
Construct ==
    /\ metadata = <<>>
    /\ initCount < MaxConstructions
    /\ \E file \in Files :
         \E storage \in [UnassignedUrls(file.children) -> Indeterminate] :
            LET r == MetadataCtor(file, storage)
            IN  /\ initCount' = initCount + 1
                /\ IF r.ok
                   THEN /\ metadata' = <<r.object>>
                        /\ thrown' = <<>>
                   ELSE /\ metadata' = <<>>
                        /\ thrown' = <<[what |-> r.what, file |-> file]>>
                /\ liveDocuments' = ParserScopeExit(ParserParse(liveDocuments, file), file)
    /\ ret' = <<>>
    /\ UNCHANGED termCount

\* Metadata::~Metadata()
Destroy ==
    /\ metadata # <<>>
    /\ termCount' = termCount + 1
    /\ metadata' = <<>>
    /\ ret' = <<>>
    /\ UNCHANGED <<thrown, initCount, liveDocuments>>

\* Metadata::operator[](tag)
Lookup ==
    /\ metadata # <<>>
    /\ \E tag \in LookupTags :
         ret' = <<[op |-> "operator[]", tag |-> tag, value |-> Index(metadata[1], tag)]>>
    /\ UNCHANGED <<metadata, thrown, initCount, termCount, liveDocuments>>

\* The Dependency records of the live object.
Dependencies(m) ==
    {m._depend[i] : i \in DOMAIN m._depend}
    \cup {m._conflict[i] : i \in DOMAIN m._conflict}
    \cup {m._replace[i] : i \in DOMAIN m._replace}

\* What evaluating the condition of d can yield; nothing is evaluated when d
\* has no condition.
ConditionValues(d) == IF d.condition # EmptyString THEN BOOLEAN ELSE {FALSE}

\* Dependency::matchesDependency(version) on a record of the live object
Match ==
    /\ metadata # <<>>
    /\ \E d \in Dependencies(metadata[1]), version \in Versions :
         \E evaluated \in ConditionValues(d) :
            ret' = <<[op |-> "matchesDependency", dependency |-> d, version |-> version,
                      value |-> matchesDependency(d, version, evaluated)]>>
    /\ UNCHANGED <<metadata, thrown, initCount, termCount, liveDocuments>>

\* Metadata::dom()
Dom ==
    /\ metadata # <<>>
    /\ ret' = <<[op |-> "dom", value |-> metadata[1]._dom]>>
    /\ UNCHANGED <<metadata, thrown, initCount, termCount, liveDocuments>>

Next == Construct \/ Destroy \/ Lookup \/ Match \/ Dom

Spec == Init /\ [][Next]_vars

(***************************************************************************)
(* Properties                                                              *)
(***************************************************************************)
\* The child ELEMENTS of a root that satisfy Test, in document order.
SelectElements(children, Test(_)) ==
    LET T(n) == n.node = "element" /\ Test(n) IN SelectSeq(children, T)

WithTag(children, tag) ==
    LET T(n) == n.tag = tag IN SelectElements(children, T)

\* The text of the last element with this tag, empty when there is none.
LastText(children, tag) ==
    LET es == WithTag(children, tag)
    IN  IF es = <<>> THEN EmptyString ELSE es[Len(es)].text

\* name, version and description non-empty, a maintainer and a license.
HasRequired(children) ==
    /\ LastText(children, "name") # EmptyString
    /\ LastText(children, "version") # EmptyString
    /\ LastText(children, "description") # EmptyString
    /\ WithTag(children, "maintainer") # <<>>
    /\ WithTag(children, "license") # <<>>

IsFormat3Package(file) ==
    file.wellFormed /\ file.tag = "package" /\ file.attrs = Format3

\* C1: for a <package format="3"> document construction succeeds if and only
\* if name, version and description are non-empty and a maintainer and a
\* license element are present; a constructed Metadata has non-empty name,
\* version, description and non-empty maintainer and license sequences.
C1_RequiredFieldsGuaranteed ==
    /\ metadata # <<>> =>
        /\ HasRequired(metadata[1]._dom.children)
        /\ metadata[1]._name # EmptyString
        /\ metadata[1]._version # EmptyString
        /\ metadata[1]._description # EmptyString
        /\ metadata[1]._maintainer # <<>>
        /\ metadata[1]._license # <<>>
    /\ (thrown # <<>> /\ IsFormat3Package(thrown[1].file)) =>
        ~HasRequired(thrown[1].file.children)

\* The records the claimed rule makes of the unrecognised elements without
\* child elements.
ClaimedGeneric(children) ==
    LET T(n) == n.tag \notin RecognizedTags /\ n.elems = 0
        es == SelectElements(children, T)
    IN  [i \in 1..Len(es) |-> [contents |-> es[i].text, attributes |-> es[i].attrs]]

\* C2: every top-level element with an unrecognised tag and no child elements
\* (text content allowed) yields exactly one GenericMetadata record holding
\* its text and exactly its attributes.
C2_GenericForChildlessElements ==
    metadata # <<>> =>
        metadata[1]._genericMetadata = ClaimedGeneric(metadata[1]._dom.children)

\* The records parseVersion3 created from the elements with this tag.
CreatedFromTag(children, tag) ==
    LET T(n) == n.tag \notin RecognizedTags /\ n.tag = tag /\ IsGenericCandidate(n)
        es == SelectElements(children, T)
    IN  [i \in 1..Len(es) |-> GenericMetadata(es[i])]

\* C3: operator[](tag) returns exactly the GenericMetadata records created from
\* the elements named tag, in document order, and nothing when there is none.
C3_LookupFiltersByTag ==
    (ret # <<>> /\ ret[1].op = "operator[]") =>
        ret[1].value = CreatedFromTag(metadata[1]._dom.children, ret[1].tag)

\* The type the claim assigns to a value of the type attribute.
ClaimedUrlType(typeAttribute) ==
    IF typeAttribute = Bugtracker THEN "bugtracker"
    ELSE IF typeAttribute = Repository THEN "repository"
    ELSE "website"

\* C4: a Url always has a defined type: website for an absent, empty or
\* "website" type attribute, bugtracker, repository, and website for any other
\* value.
C4_UrlTypeDefined ==
    metadata # <<>> =>
        LET es == WithTag(metadata[1]._dom.children, "url")
        IN  /\ Len(metadata[1]._url) = Len(es)
            /\ \A i \in 1..Len(es) :
                 metadata[1]._url[i].type = ClaimedUrlType(getAttribute(es[i], "type"))

\* C5: a document whose root tag is not "package" fails with the root-element
\* error whatever its format attribute and children are, and leaves no object.
C5_WrongRootFails ==
    /\ metadata # <<>> => metadata[1]._dom.tag = "package"
    /\ (thrown # <<>> /\ thrown[1].file.wellFormed /\ thrown[1].file.tag # "package") =>
        /\ thrown[1].what = WrongRoot
        /\ metadata = <<>>

C5_Witness ==
    /\ thrown # <<>>
    /\ metadata = <<>>
    /\ thrown[1].file.tag = "foo"
    /\ thrown[1].file.attrs = Format3
    /\ thrown[1].file.children # <<>>
    /\ thrown[1].what = WrongRoot

\* The integer each format string denotes; the strings outside are not
\* numbers.
FormatNumber ==
    {<<(<<"3">>), 3>>, <<(<<"4">>), 4>>, <<(<<"0", "3">>), 3>>, <<(<<" ", "3", " ">>), 3>>,
     <<(<<"+", "3">>), 3>>, <<(<<"-", "3">>), -3>>, <<(<<"3", "3">>), 33>>}

IsNumber(f) == \E p \in FormatNumber : p[1] = f

NumberOf(f) == (CHOOSE p \in FormatNumber : p[1] = f)[2]

\* C6: with a <package> root, an absent or non-numeric format fails, an integer
\* other than 3 fails as unsupported, and parseVersion3 runs (an object
\* results) only when the value is 3.
C6_FormatGate ==
    /\ metadata # <<>> =>
        LET f == getAttribute(metadata[1]._dom, "format")
        IN  IsNumber(f) /\ NumberOf(f) = 3
    /\ (thrown # <<>> /\ thrown[1].file.wellFormed /\ thrown[1].file.tag = "package") =>
        LET f == getAttribute(thrown[1].file, "format")
        IN  /\ metadata = <<>>
            /\ ~IsNumber(f) => thrown[1].what \in {MissingFormat, NumberFormatException}
            /\ IsNumber(f) => (NumberOf(f) # 3 /\ thrown[1].what = UnsupportedFormat)

C6_Witness ==
    /\ thrown # <<>>
    /\ thrown[1].file.tag = "package"
    /\ getAttribute(thrown[1].file, "format") = <<"3", "3">>
    /\ thrown[1].file.children # <<>>
    /\ thrown[1].what = UnsupportedFormat

IsMatch(r) == r # <<>> /\ r[1].op = "matchesDependency"

\* d has no condition and exactly the bounds named in `present`.
OnlyBounds(d, present) ==
    /\ d.condition = EmptyString
    /\ \A b \in {"version_lt", "version_lte", "version_eq", "version_gte", "version_gt"} :
         (d[b] # EmptyString) <=> (b \in present)

\* C7: without a condition and with version_eq set, matchesDependency is true
\* only for the very string version_eq; with version_eq = "2.0.0" alone it is
\* true for "2.0.0" and false for "2.0" and "2.0.0.1".
C7_VersionEqExactString ==
    IsMatch(ret) =>
        LET d == ret[1].dependency
            v == ret[1].version
        IN  /\ (d.condition = EmptyString /\ d.version_eq # EmptyString /\ ret[1].value)
                 => v = d.version_eq
            /\ (OnlyBounds(d, {"version_eq"}) /\ d.version_eq = V200)
                 => (ret[1].value <=> v = V200)

C7_Witness ==
    /\ IsMatch(ret)
    /\ OnlyBounds(ret[1].dependency, {"version_eq"})
    /\ ret[1].dependency.version_eq = V200
    /\ ret[1].version = V20
    /\ ~ret[1].value

\* (major, minor, patch) of the version strings of the model.
TripletOf ==
    {<<V119, <<1, 1, 9>>>>, <<V120, <<1, 2, 0>>>>, <<V121, <<1, 2, 1>>>>, <<V130, <<1, 3, 0>>>>,
     <<V20, <<2, 0, 0>>>>, <<V200, <<2, 0, 0>>>>, <<V2001, <<2, 0, 0>>>>}

HasTriplet(s) == \E p \in TripletOf : p[1] = s

Triplet(s) == (CHOOSE p \in TripletOf : p[1] = s)[2]

\* a before b in the lexicographic order of triplets
LexLess(a, b) == \E k \in 1..3 : a[k] < b[k] /\ \A j \in 1..(k - 1) : a[j] = b[j]

\* Every bound that is present holds for the candidate v.
AllBoundsHold(d, v) ==
    /\ d.version_eq # EmptyString => v = d.version_eq
    /\ d.version_lt # EmptyString => LexLess(Triplet(v), Triplet(d.version_lt))
    /\ d.version_lte # EmptyString => ~LexLess(Triplet(d.version_lte), Triplet(v))
    /\ d.version_gte # EmptyString => ~LexLess(Triplet(v), Triplet(d.version_gte))
    /\ d.version_gt # EmptyString => LexLess(Triplet(d.version_gt), Triplet(v))

\* C8: without a condition, matchesDependency is true exactly when every
\* present bound holds, the relational bounds comparing zero-padded (major,
\* minor, patch) triplets lexicographically; no bounds accept every candidate;
\* version_gte = "1.2.0" alone accepts "1.2.0" and "1.3.0" and rejects "1.1.9".
C8_AllPresentBoundsHold ==
    IsMatch(ret) =>
        LET d == ret[1].dependency
            v == ret[1].version
        IN  /\ (d.condition = EmptyString /\ HasTriplet(v))
                 => (ret[1].value <=> AllBoundsHold(d, v))
            /\ OnlyBounds(d, {}) => ret[1].value
            /\ (OnlyBounds(d, {"version_gte"}) /\ d.version_gte = V120) =>
                 /\ v \in {V120, V130} => ret[1].value
                 /\ v = V119 => ~ret[1].value

C8_Witness ==
    /\ IsMatch(ret)
    /\ OnlyBounds(ret[1].dependency, {"version_lt", "version_gte"})
    /\ ret[1].dependency.version_gte = V120
    /\ ret[1].dependency.version_lt = V20
    /\ ret[1].version = V2001
    /\ ~ret[1].value

\* C9: once every constructed object is destroyed, Terminate has been called
\* as often as Initialize, constructions that threw included.
C9_TerminateBalancesInitialize ==
    metadata = <<>> => termCount = initCount

\* The text of the elements with this tag, in document order.
TextsOf(children, tag) ==
    LET es == WithTag(children, tag) IN [i \in 1..Len(es) |-> es[i].text]

Project(records, field) == [i \in 1..Len(records) |-> records[i][field]]

Unrecognized(children) ==
    LET T(n) == n.tag \notin RecognizedTags IN SelectElements(children, T)

\* C10: each of the seven record sequences holds exactly one record per
\* top-level element with its tag, in document order; such an element adds
\* nothing to another sequence nor to the generic metadata.
C10_OneRecordPerElementInOrder ==
    metadata # <<>> =>
        LET m == metadata[1]
            c == m._dom.children
        IN  /\ Project(m._maintainer, "name") = TextsOf(c, "maintainer")
            /\ Project(m._license, "name") = TextsOf(c, "license")
            /\ Project(m._url, "location") = TextsOf(c, "url")
            /\ Project(m._author, "name") = TextsOf(c, "author")
            /\ Project(m._depend, "package") = TextsOf(c, "depend")
            /\ Project(m._conflict, "package") = TextsOf(c, "conflict")
            /\ Project(m._replace, "package") = TextsOf(c, "replace")
            /\ Len(m._genericMetadata) <= Len(Unrecognized(c))

C10_Witness ==
    /\ metadata # <<>>
    /\ Len(metadata[1]._author) = 2
    /\ metadata[1]._author[1].name = TxtB
    /\ metadata[1]._author[2].name = TxtA
    /\ metadata[1]._maintainer = <<>>

\* C11: name, version and description hold the text of the last element with
\* that tag among the root's children, whatever stands between the
\* occurrences.
C11_LastOccurrenceWins ==
    metadata # <<>> =>
        LET m == metadata[1]
            c == m._dom.children
        IN  /\ Len(WithTag(c, "name")) > 1 => m._name = LastText(c, "name")
            /\ Len(WithTag(c, "version")) > 1 => m._version = LastText(c, "version")
            /\ Len(WithTag(c, "description")) > 1
                 => m._description = LastText(c, "description")

C11_Witness ==
    /\ metadata # <<>>
    /\ metadata[1]._dom.children =
         <<Element("version", {}, TxtB, 0), Element("author", {}, TxtA, 0),
           Element("version", {}, TxtA, 0)>>
    /\ metadata[1]._version = TxtA

HasAttribute(e, name) == \E p \in e.attrs : p[1] = name

DependencyAttributes ==
    {"version_lt", "version_lte", "version_eq", "version_gte", "version_gt", "condition"}

\* Every record of `records` built from an element of `elements` that lacks
\* all the attributes `optional` has the fields `optional` empty and the
\* element's text in `primary`.
DefaultsWhenMissing(records, elements, optional, primary) ==
    /\ Len(records) = Len(elements)
    /\ \A i \in 1..Len(elements) :
         (\A a \in optional : ~HasAttribute(elements[i], a)) =>
            /\ \A a \in optional : records[i][a] = EmptyString
            /\ records[i][primary] = elements[i].text

C13_DomHandleLive ==
    /\ metadata # <<>> =>
        /\ metadata[1]._dom \in liveDocuments
        /\ initCount > termCount
    /\ (ret # <<>> /\ ret[1].op = "dom") => ret[1].value \in liveDocuments

====
